---- MODULE Spec2Model ----
(***************************************************************************)
(* Model of _bmad/core/verification/extract-gates.py: one run of the       *)
(* script (main, extract_gates) over one story file.                       *)
(*                                                                         *)
(* A text is a sequence of one-character strings.  A parsed YAML value is  *)
(* a tagged record; a key that a mapping does not hold is the value        *)
(* Absent.                                                                 *)
(***************************************************************************)
EXTENDS Integers, Sequences, FiniteSets, TLC

\* Longest gate sequence the documents of Init hold.
MaxGates == 2

VARIABLES
    argc,           \* number of command line arguments after the script name
    fs,             \* what open() finds at the path: "missing", "denied", "present"
    content,        \* what reading and parsing the file gives: "yaml", "invalid", "undecodable"
    doc,            \* the tree yaml.safe_load returns when content = "yaml"
    pc,             \* position of the run
    handle,         \* the file object f: "none", "open", "closed"
    opens,          \* number of successful open() calls
    data,           \* extract_gates: data
    verification,   \* extract_gates: verification
    gates,          \* extract_gates: gates
    items,          \* the entries the for loop iterates over
    i,              \* index of the next entry of the for loop
    results,        \* extract_gates: results
    exc,            \* the exception in flight, "none" when there is none
    e,              \* the exception an except clause caught, "none" when none did
    returned,       \* main: gates, the value extract_gates returned
    j,              \* index of the next line main prints
    stdout,         \* lines printed to sys.stdout
    stderr,         \* messages printed to sys.stderr
    exitStatus,     \* exit status of the process, -1 while it runs
    extractCalled   \* whether main called extract_gates

vars == <<argc, fs, content, doc, pc, handle, opens, data, verification, gates,
          items, i, results, exc, e, returned, j, stdout, stderr, exitStatus,
          extractCalled>>

----------------------------------------------------------------------------
(* Scalars of a parsed document.                                           *)

Scalar(tag, s, n) == [tag |-> tag, s |-> s, n |-> n]
Absent   == Scalar("absent", <<>>, 0)
None     == Scalar("null", <<>>, 0)
PyStr(s) == Scalar("str", s, 0)
PyInt(n) == Scalar("int", <<>>, n)
PyBool(b) == Scalar("bool", <<>>, IF b THEN 1 ELSE 0)

\* A gate entry: a mapping with the four keys (each a scalar or Absent), or
\* something that is not a mapping.
Entry(tag, name, type, command, expected_exit) ==
    [tag |-> tag, name |-> name, type |-> type, command |-> command,
     expected_exit |-> expected_exit]
MapEntry(name, type, command, expected_exit) ==
    Entry("map", name, type, command, expected_exit)
NonMapEntry(tag) == Entry(tag, Absent, Absent, Absent, Absent)

\* The value of key gates: its tag and, for what Python can iterate over
\* (a sequence, the keys of a mapping, the characters of a string), the
\* entries the iteration yields.
GatesNode(tag, its) == [tag |-> tag, items |-> its]
AbsentGates == GatesNode("absent", <<>>)

\* The value of key verification: its tag and the value of its key gates.
VerNode(tag, g) == [tag |-> tag, gates |-> g]
AbsentVer == VerNode("absent", AbsentGates)

\* The top-level document: its tag, n (the value of a number or boolean, the
\* length of a string or sequence, the number of keys other than
\* verification of a mapping) and the value of its key verification.
DocNode(tag, n, v) == [tag |-> tag, n |-> n, verification |-> v]

----------------------------------------------------------------------------
(* Python's str() of a scalar, as the f-string of line 31 applies it.      *)

Digit(d) == <<"0", "1", "2", "3", "4", "5", "6", "7", "8", "9">>[d + 1]

RECURSIVE NatStr(_)
NatStr(n) == IF n < 10 THEN <<Digit(n)>> ELSE NatStr(n \div 10) \o <<Digit(n % 10)>>

IntStr(n) == IF n < 0 THEN <<"-">> \o NatStr(-n) ELSE NatStr(n)

Str(v) ==
    CASE v.tag = "str"  -> v.s
      [] v.tag = "int"  -> IntStr(v.n)
      [] v.tag = "bool" -> IF v.n = 1 THEN <<"T", "r", "u", "e">>
                                      ELSE <<"F", "a", "l", "s", "e">>
      [] v.tag = "null" -> <<"N", "o", "n", "e">>

\* A variant of DictGet: d.get(key) or default, which also replaces a stored
\* null, empty string, false or 0.
DictGetLoose(d, key, default) ==
    IF d[key].tag = "absent" \/ d[key].tag = "null"
          \/ (d[key].tag = "str" /\ d[key].s = <<>>)
          \/ (d[key].tag \in {"int", "bool"} /\ d[key].n = 0)
    THEN default ELSE d[key]

\* dict.get(key, default): the default only when the key is absent.
DictGet(d, key, default) == IF d[key].tag = "absent" THEN default ELSE d[key]

\* The defaults of lines 25-28.
DefaultName == PyStr(<<"U", "n", "k", "n", "o", "w", "n">>)
DefaultType == PyStr(<<"c", "o", "m", "m", "a", "n", "d">>)
DefaultCommand == PyStr(<<>>)
DefaultExpectedExit == PyInt(0)

\* A variant of FormatLine that leaves the separators out.
FormatLineNoSep(name, gate_type, command, expected_exit) ==
    Str(name) \o Str(gate_type) \o Str(command) \o Str(expected_exit)

\* f"{name}|{gate_type}|{command}|{expected_exit}"
FormatLine(name, gate_type, command, expected_exit) ==
    Str(name) \o <<"|">> \o Str(gate_type) \o <<"|">> \o Str(command)
        \o <<"|">> \o Str(expected_exit)

\* Lines 25-31 for one gate that is a mapping.
GateLine(gate) ==
    FormatLine(DictGet(gate, "name", DefaultName),
               DictGet(gate, "type", DefaultType),
               DictGet(gate, "command", DefaultCommand),
               DictGet(gate, "expected_exit", DefaultExpectedExit))

\* A variant of ResultsAppend: results.insert(0, ...).
ResultsPrepend(rs, line) == <<line>> \o rs

\* results.append(...)
ResultsAppend(rs, line) == Append(rs, line)

----------------------------------------------------------------------------
(* Python's view of the values.                                            *)

\* A variant of HasGet: a lookup that tolerates every value.
HasGetAny(v) == TRUE

\* Only a mapping has .get (lines 20, 21, 25).
HasGet(v) == v.tag = "map"

\* len() of the top-level document.
PyLen(d) ==
    IF d.tag = "map" THEN d.n + (IF d.verification.tag = "absent" THEN 0 ELSE 1)
    ELSE d.n

\* A variant of Truthy: "if data is None".
TruthyNotNone(d) == d.tag # "null"

\* Truth value of the top-level document: "if not data" (line 17).
Truthy(d) ==
    CASE d.tag = "null" -> FALSE
      [] d.tag \in {"bool", "int"} -> d.n # 0
      [] OTHER -> PyLen(d) # 0

\* What "for gate in gates" can iterate over (line 24).
Iterable(g) == g.tag \in {"seq", "map", "str"}

\* The empty mapping and the empty sequence of lines 20 and 21.
EmptyDict == VerNode("map", AbsentGates)
EmptyList == GatesNode("seq", <<>>)

\* A variant of MissingArgument: len(sys.argv) < 1.
MissingArgumentOffByOne(n) == n + 1 < 1

\* len(sys.argv) < 2 (line 46); sys.argv holds the script name too.
MissingArgument(n) == n + 1 < 2

\* A variant of ExceptClause without the clause of line 41.
ExceptClauseNoCatchAll(x) ==
    CASE x = "FileNotFoundError" -> "not_found"
      [] x = "YAMLError" -> "invalid_yaml"
      [] OTHER -> "uncaught"

\* Which except clause of lines 35-43 takes an exception.  Every exception
\* the try block raises is an Exception.
ExceptClause(x) ==
    CASE x = "FileNotFoundError" -> "not_found"
      [] x = "YAMLError" -> "invalid_yaml"
      [] OTHER -> "generic"

\* The message an except clause prints.
ErrorMessage(clause, x) ==
    [prefix |-> "Error:",
     text |-> CASE clause = "not_found" -> "File not found: <story_file>"
                [] clause = "invalid_yaml" -> "Invalid YAML: <e>"
                [] OTHER -> "<e>",
     of |-> x]

UsageMessage ==
    [prefix |-> "Usage:", text |-> "python extract-gates.py <story-file>",
     of |-> "none"]

Traceback(x) == [prefix |-> "Traceback", text |-> "<traceback>", of |-> x]

\* A variant of HandlerReturn: return results.
HandlerReturnPartial(rs) == rs

\* What every except clause returns (lines 37, 40, 43): return [].
HandlerReturn(rs) == <<>>

\* A variant of HandleAfterWith: f.close() after the load, with no with
\* block, so that an exception skips it.
HandleAfterWithLeak(h, x) == IF x = "none" THEN "closed" ELSE h

\* The file object after the with block of lines 14-15 is left, normally or
\* by an exception.
HandleAfterWith(h, x) == "closed"

----------------------------------------------------------------------------
(* The inputs of a run.                                                    *)

ArgCounts == {0, 1, 2}

\* Gate entries of the documents of Spec: every key present or absent, and
\* entries that are not mappings.
NameVals == {Absent, PyStr(<<"a">>)}
TypeVals == {Absent, PyStr(<<"s">>)}
CommandVals == {Absent, PyStr(<<"c">>)}
ExitVals == {Absent, PyInt(2)}

Entries ==
    {MapEntry(n, t, c, x) : n \in NameVals, t \in TypeVals, c \in CommandVals,
                            x \in ExitVals}
    \cup {NonMapEntry("null"), NonMapEntry("str")}

GateLists == UNION {[1..n -> Entries] : n \in 0..MaxGates}

GatesNodes ==
    {AbsentGates}
    \cup {GatesNode(t, <<>>) : t \in {"null", "int", "bool"}}
    \cup {GatesNode(t, its) : t \in {"str", "map"},
                              its \in {<<>>, <<NonMapEntry("str")>>}}
    \cup {GatesNode("seq", l) : l \in GateLists}

VerNodes ==
    {VerNode(t, AbsentGates) : t \in {"null", "int", "bool", "str", "seq"}}
    \cup {VerNode("map", g) : g \in GatesNodes}

NoDoc == DocNode("null", 0, AbsentVer)

Docs ==
    {NoDoc}
    \cup {DocNode(t, n, AbsentVer) : t \in {"bool", "int", "str", "seq", "map"},
                                     n \in {0, 1}}
    \cup {DocNode("map", 0, v) : v \in VerNodes}

\* A file: what open() finds, what parsing gives, and the parsed tree.
File(f, c, d) == [fs |-> f, content |-> c, doc |-> d]

Files ==
    {File("missing", "none", NoDoc), File("denied", "none", NoDoc),
     File("present", "invalid", NoDoc), File("present", "undecodable", NoDoc)}
    \cup {File("present", "yaml", d) : d \in Docs}

\* Gate entries whose keys hold the values a default could be mistaken for.
FalsyVals == {Absent, None, PyStr(<<>>), PyBool(FALSE), PyInt(0)}

FalsyEntries ==
    {MapEntry(n, t, c, x) : n \in FalsyVals, t \in FalsyVals, c \in FalsyVals,
                            x \in FalsyVals}

\* Gate entries that differ in one or more fields, with and without the
\* separator in a value, and with a number and the string that spells it.
PairNameVals == {Absent, PyStr(<<>>), PyStr(<<"a">>), PyStr(<<"|">>)}
PairTypeVals == {Absent, PyStr(<<>>), PyStr(<<"a">>)}
PairCommandVals == {PyStr(<<>>), PyStr(<<"a">>), PyStr(<<"a", "|">>)}
PairExitVals == {Absent, PyInt(1), PyStr(<<"0">>), PyStr(<<"1">>)}

PairEntries ==
    {MapEntry(n, t, c, x) : n \in PairNameVals, t \in PairTypeVals,
                            c \in PairCommandVals, x \in PairExitVals}

FormatLists ==
    {<<g>> : g \in FalsyEntries} \cup {<<g, h>> : g \in PairEntries, h \in PairEntries}

GatesDoc(l) == DocNode("map", 0, VerNode("map", GatesNode("seq", l)))

----------------------------------------------------------------------------
(* The run.                                                                *)

Start(n, file) ==
    /\ argc = n
    /\ fs = file.fs
    /\ content = file.content
    /\ doc = file.doc
    /\ pc = "start"
    /\ handle = "none"
    /\ opens = 0
    /\ data = NoDoc
    /\ verification = AbsentVer
    /\ gates = AbsentGates
    /\ items = <<>>
    /\ i = 1
    /\ results = <<>>
    /\ exc = "none"
    /\ e = "none"
    /\ returned = <<>>
    /\ j = 1
    /\ stdout = <<>>
    /\ stderr = <<>>
    /\ exitStatus = -1
    /\ extractCalled = FALSE

Init == \E n \in ArgCounts, file \in Files : Start(n, file)

InitFormat == \E l \in FormatLists : Start(1, File("present", "yaml", GatesDoc(l)))

inputs == <<argc, fs, content, doc>>
locals == <<data, verification, gates, items, i, results>>
streams == <<stdout, stderr>>

\* An exception x raised inside the try block of extract_gates.
Raise(x) == exc' = x /\ pc' = "except"

\* main, lines 46-48: no argument.
Usage ==
    /\ pc = "start"
    /\ MissingArgument(argc)
    /\ stderr' = Append(stderr, UsageMessage)
    /\ exitStatus' = 1
    /\ pc' = "done"
    /\ UNCHANGED <<inputs, locals, handle, opens, exc, e, returned, j, stdout,
                   extractCalled>>

\* main, lines 50-51: sys.argv[1] and the call of extract_gates.  Without an
\* argument sys.argv[1] raises IndexError, which nothing catches.
CallExtract ==
    /\ pc = "start"
    /\ ~MissingArgument(argc)
    /\ IF argc >= 1
       THEN /\ extractCalled' = TRUE
            /\ pc' = "open"
            /\ UNCHANGED <<exc, stderr, exitStatus>>
       ELSE /\ exc' = "IndexError"
            /\ stderr' = Append(stderr, Traceback("IndexError"))
            /\ exitStatus' = 1
            /\ pc' = "done"
            /\ UNCHANGED extractCalled
    /\ UNCHANGED <<inputs, locals, handle, opens, e, returned, j, stdout>>

\* Line 14: open(story_file).
Open ==
    /\ pc = "open"
    /\ CASE fs = "present" ->
              /\ handle' = "open"
              /\ opens' = opens + 1
              /\ pc' = "load"
              /\ UNCHANGED exc
         [] fs = "missing" ->
              /\ Raise("FileNotFoundError")
              /\ UNCHANGED <<handle, opens>>
         [] OTHER ->
              /\ Raise("PermissionError")
              /\ UNCHANGED <<handle, opens>>
    /\ UNCHANGED <<inputs, locals, e, returned, j, streams, exitStatus, extractCalled>>

\* Line 15: yaml.safe_load(f) reads and parses the whole file.
Load ==
    /\ pc = "load"
    /\ CASE content = "yaml" -> data' = doc /\ UNCHANGED exc
         [] content = "invalid" -> exc' = "YAMLError" /\ UNCHANGED data
         [] OTHER -> exc' = "UnicodeDecodeError" /\ UNCHANGED data
    /\ pc' = "with_exit"
    /\ UNCHANGED <<inputs, verification, gates, items, i, results, handle, opens, e,
                   returned, j, streams, exitStatus, extractCalled>>

\* The end of the with block of lines 14-15: the file is closed, normally or
\* while the exception leaves the block.
WithExit ==
    /\ pc = "with_exit"
    /\ handle' = HandleAfterWith(handle, exc)
    /\ pc' = IF exc = "none" THEN "if_data" ELSE "except"
    /\ UNCHANGED <<inputs, locals, opens, exc, e, returned, j, streams, exitStatus,
                   extractCalled>>

\* Lines 17-18: if not data: return [].
ReturnEmpty ==
    /\ pc = "if_data"
    /\ ~Truthy(data)
    /\ returned' = <<>>
    /\ pc' = "print"
    /\ UNCHANGED <<inputs, locals, handle, opens, exc, e, j, streams, exitStatus,
                   extractCalled>>

\* Line 20: verification = data.get('verification', {}).
GetVerification ==
    /\ pc = "if_data"
    /\ Truthy(data)
    /\ IF HasGet(data)
       THEN /\ verification' = DictGet(data, "verification", EmptyDict)
            /\ pc' = "get_gates"
            /\ UNCHANGED exc
       ELSE /\ Raise("AttributeError")
            /\ UNCHANGED verification
    /\ UNCHANGED <<inputs, data, gates, items, i, results, handle, opens, e, returned,
                   j, streams, exitStatus, extractCalled>>

\* Line 21: gates = verification.get('gates', []).
GetGates ==
    /\ pc = "get_gates"
    /\ IF HasGet(verification)
       THEN /\ gates' = DictGet(verification, "gates", EmptyList)
            /\ pc' = "for"
            /\ UNCHANGED exc
       ELSE /\ Raise("AttributeError")
            /\ UNCHANGED gates
    /\ UNCHANGED <<inputs, data, verification, items, i, results, handle, opens, e,
                   returned, j, streams, exitStatus, extractCalled>>

\* Lines 23-24: results = [] and the start of the for loop.
ForStart ==
    /\ pc = "for"
    /\ results' = <<>>
    /\ IF Iterable(gates)
       THEN /\ items' = gates.items
            /\ i' = 1
            /\ pc' = "loop"
            /\ UNCHANGED exc
       ELSE /\ Raise("TypeError")
            /\ UNCHANGED <<items, i>>
    /\ UNCHANGED <<inputs, data, verification, gates, handle, opens, e, returned, j,
                   streams, exitStatus, extractCalled>>

\* Lines 24-31: one pass of the loop body.
ForEach ==
    /\ pc = "loop"
    /\ i <= Len(items)
    /\ IF HasGet(items[i])
       THEN /\ results' = ResultsAppend(results, GateLine(items[i]))
            /\ i' = i + 1
            /\ UNCHANGED <<pc, exc>>
       ELSE /\ Raise("AttributeError")
            /\ UNCHANGED <<results, i>>
    /\ UNCHANGED <<inputs, data, verification, gates, items, handle, opens, e,
                   returned, j, streams, exitStatus, extractCalled>>

\* Line 33: return results.
ReturnResults ==
    /\ pc = "loop"
    /\ i > Len(items)
    /\ returned' = results
    /\ pc' = "print"
    /\ UNCHANGED <<inputs, locals, handle, opens, exc, e, j, streams, exitStatus,
                   extractCalled>>

\* Lines 35-43: the except clauses.  An exception no clause takes leaves
\* extract_gates and main, and the interpreter ends the process with status 1.
ExceptHandler ==
    /\ pc = "except"
    /\ LET clause == ExceptClause(exc) IN
       IF clause # "uncaught"
       THEN /\ e' = exc
            /\ exc' = "none"
            /\ stderr' = Append(stderr, ErrorMessage(clause, exc))
            /\ returned' = HandlerReturn(results)
            /\ pc' = "print"
            /\ UNCHANGED exitStatus
       ELSE /\ stderr' = Append(stderr, Traceback(exc))
            /\ exitStatus' = 1
            /\ pc' = "done"
            /\ UNCHANGED <<exc, e, returned>>
    /\ UNCHANGED <<inputs, locals, handle, opens, j, stdout, extractCalled>>

\* Lines 53-54: print one line.
PrintGate ==
    /\ pc = "print"
    /\ j <= Len(returned)
    /\ stdout' = Append(stdout, returned[j])
    /\ j' = j + 1
    /\ UNCHANGED <<inputs, locals, pc, handle, opens, exc, e, returned, stderr,
                   exitStatus, extractCalled>>

\* main returns and the process ends with status 0.
Exit ==
    /\ pc = "print"
    /\ j > Len(returned)
    /\ exitStatus' = 0
    /\ pc' = "done"
    /\ UNCHANGED <<inputs, locals, handle, opens, exc, e, returned, j, streams,
                   extractCalled>>

Next ==
    \/ Usage
    \/ CallExtract
    \/ Open
    \/ Load
    \/ WithExit
    \/ ReturnEmpty
    \/ GetVerification
    \/ GetGates
    \/ ForStart
    \/ ForEach
    \/ ReturnResults
    \/ ExceptHandler
    \/ PrintGate
    \/ Exit

Spec == Init /\ [][Next]_vars

\* The runs over a well-formed gate list: the steps such a run takes.
NextFormat ==
    \/ CallExtract
    \/ Open
    \/ Load
    \/ WithExit
    \/ GetVerification
    \/ GetGates
    \/ ForStart
    \/ ForEach
    \/ ReturnResults
    \/ PrintGate
    \/ Exit

SpecFormat == InitFormat /\ [][NextFormat]_vars

\* A run never stops on its own before the process has ended.
FairSpec == Spec /\ WF_vars(Next)

----------------------------------------------------------------------------
(* What the properties below read off the input document.                  *)

Parsed == fs = "present" /\ content = "yaml"
InMain == pc \in {"start", "print", "done"}
AfterExtract == extractCalled /\ pc \in {"print", "done"}

SourceVer == doc.verification
SourceGates == doc.verification.gates
SourceEntries == doc.verification.gates.items

\* The top-level document is a non-empty mapping.
TopMapping == Parsed /\ doc.tag = "map" /\ (doc.n > 0 \/ SourceVer.tag # "absent")

\* verification.gates is a sequence.
HasGateSequence == TopMapping /\ SourceVer.tag = "map" /\ SourceGates.tag = "seq"

\* ... of mapping entries only.
ValidGatesDocument ==
    HasGateSequence /\ \A k \in 1..Len(SourceEntries) : SourceEntries[k].tag = "map"

Bar == <<"|">>
Unknown == <<"U", "n", "k", "n", "o", "w", "n">>
Command == <<"c", "o", "m", "m", "a", "n", "d">>
Zero == <<"0">>

\* The documented text of a field: the default when the key is absent, the
\* string representation of the stored value otherwise.
FieldText(g, key, default) == IF g[key] = Absent THEN default ELSE Str(g[key])

ExpectedLine(g) ==
    FieldText(g, "name", Unknown) \o Bar \o FieldText(g, "type", Command) \o Bar
        \o FieldText(g, "command", <<>>) \o Bar \o FieldText(g, "expected_exit", Zero)

ExpectedLines == [k \in 1..Len(SourceEntries) |-> ExpectedLine(SourceEntries[k])]

IsPrefix(s, t) == Len(s) <= Len(t) /\ \A k \in 1..Len(s) : s[k] = t[k]

----------------------------------------------------------------------------
\* C1: for a valid document whose verification.gates is a sequence of N
\* mapping entries, extract_gates returns exactly N records, the k-th built
\* from the k-th entry as name|type|command|expected_exit with each missing
\* field replaced by its default ('Unknown', 'command', '', 0), and main
\* prints these N lines in the same order.
C1_RecordsInSourceOrder ==
    (argc >= 1 /\ ValidGatesDocument) =>
        /\ AfterExtract => returned = ExpectedLines
        /\ IsPrefix(stdout, ExpectedLines)
        /\ pc = "done" => stdout = ExpectedLines

C1_Witness ==
    /\ pc = "done"
    /\ ValidGatesDocument
    /\ Len(SourceEntries) = 2
    /\ SourceEntries[1] = MapEntry(PyStr(<<"a">>), Absent, Absent, Absent)
    /\ SourceEntries[2] = MapEntry(Absent, PyStr(<<"s">>), PyStr(<<"c">>), PyInt(2))
    /\ stdout = << <<"a", "|", "c", "o", "m", "m", "a", "n", "d", "|", "|", "0">>,
                   <<"U", "n", "k", "n", "o", "w", "n", "|", "s", "|", "c", "|", "2">> >>

\* C2: every run with at least one argument ends, and ends with exit status
\* 0 whatever extraction did; exit status 1 occurs only when the argument is
\* missing.
C2_ExitStatus ==
    /\ [](pc = "done" => exitStatus = (IF argc >= 1 THEN 0 ELSE 1))
    /\ [](pc # "done" => exitStatus = -1)
    /\ <>(pc = "done")

C2_Witness ==
    /\ pc = "done"
    /\ argc >= 1
    /\ e = "AttributeError"
    /\ exitStatus = 0

\* C3: every failure during extraction is contained in extract_gates: no
\* exception reaches main, the returned sequence is empty, exactly one
\* message prefixed "Error:" goes to the diagnostic stream, and nothing goes
\* to standard output.  A missing file reports "File not found", content
\* that does not parse reports "Invalid YAML".
C3_FailureContained ==
    /\ InMain => exc = "none"
    /\ exc # "none" => stdout = <<>> /\ stderr = <<>>
    /\ e # "none" =>
         /\ returned = <<>>
         /\ stdout = <<>>
         /\ Len(stderr) = 1
         /\ stderr[1].prefix = "Error:"
         /\ stderr[1].of = e
    /\ (AfterExtract /\ fs = "missing") =>
         e = "FileNotFoundError" /\ stderr[1].text = "File not found: <story_file>"
    /\ (AfterExtract /\ fs = "present" /\ content = "invalid") =>
         e = "YAMLError" /\ stderr[1].text = "Invalid YAML: <e>"
    /\ (AfterExtract /\ (fs = "denied" \/ (fs = "present" /\ content = "undecodable"))) =>
         e # "none"

C3_Witness ==
    /\ pc = "done"
    /\ fs = "present"
    /\ content = "invalid"
    /\ e = "YAMLError"
    /\ returned = <<>>
    /\ stdout = <<>>
    /\ Len(stderr) = 1

\* The run reported no error and returned the empty sequence.
QuietlyEmpty == returned = <<>> /\ stderr = <<>> /\ e = "none" /\ stdout = <<>>

\* The run reported one generic error for exception x and returned the
\* empty sequence.
GenericError(x) ==
    /\ returned = <<>>
    /\ stdout = <<>>
    /\ e = x
    /\ stderr = << [prefix |-> "Error:", text |-> "<e>", of |-> x] >>

\* C4 as stated: when the top-level document is a non-empty mapping whose
\* verification is absent or not a mapping, or whose verification.gates is
\* absent or not a sequence, extract_gates returns the empty sequence
\* without reporting any error.
C4_WrongTypeIsQuiet ==
    (argc >= 1 /\ TopMapping /\ ~HasGateSequence /\ AfterExtract) => QuietlyEmpty

\* C4 as amended: an absent verification, or an absent gates in a mapping
\* verification, gives the empty sequence and no error, and so does a gates
\* that is an empty string or an empty mapping.  A verification that is
\* present and not a mapping, or a gates that is present and cannot be
\* traversed as a sequence of mappings, gives the empty sequence and one
\* generic "Error:" message.
C4_AbsentIsQuietWrongTypeIsError ==
    (argc >= 1 /\ TopMapping /\ ~HasGateSequence /\ AfterExtract) =>
        CASE SourceVer.tag = "absent" -> QuietlyEmpty
          [] SourceVer.tag # "map" -> GenericError("AttributeError")
          [] SourceGates.tag = "absent" -> QuietlyEmpty
          [] SourceGates.tag \in {"str", "map"} ->
               IF SourceGates.items = <<>> THEN QuietlyEmpty
               ELSE GenericError("AttributeError")
          [] OTHER -> GenericError("TypeError")

C4_Witness ==
    /\ pc = "done"
    /\ TopMapping
    /\ SourceVer.tag = "null"
    /\ GenericError("AttributeError")

\* C5: with no argument the program writes a usage message to the
\* diagnostic stream, nothing to standard output, ends with exit status 1,
\* and never calls extract_gates or opens a file.
C5_NoArgument ==
    argc = 0 =>
        /\ ~extractCalled
        /\ opens = 0
        /\ handle = "none"
        /\ stdout = <<>>
        /\ pc \in {"start", "done"}
        /\ pc = "start" => stderr = <<>>
        /\ pc = "done" => stderr = <<UsageMessage>> /\ exitStatus = 1

C5_Witness ==
    /\ argc = 0
    /\ pc = "done"
    /\ fs = "present"
    /\ stderr = <<UsageMessage>>
    /\ exitStatus = 1

\* The file's content is empty or parses to an empty or null value.
EmptyDocument ==
    /\ Parsed
    /\ \/ doc.tag = "null"
       \/ doc.tag \in {"str", "seq", "map"} /\ doc.n = 0 /\ SourceVer.tag = "absent"

\* C7: when the file exists and its content is empty or parses to an empty
\* or null value, extract_gates returns the empty sequence without an
\* error: no diagnostic, nothing on standard output, exit status 0.
C7_EmptyDocumentIsNoError ==
    (argc >= 1 /\ EmptyDocument) =>
        /\ exc = "none"
        /\ QuietlyEmpty
        /\ pc = "done" => exitStatus = 0

C7_Witness ==
    /\ pc = "done"
    /\ argc >= 1
    /\ Parsed
    /\ doc.tag = "seq"
    /\ doc.n = 0
    /\ QuietlyEmpty
    /\ exitStatus = 0

\* C8: the returned sequence has as many records as the source gates
\* sequence has entries, or is empty; when an entry fails, the records
\* built before it are dropped and no line reaches standard output.
C8_AllOrNothing ==
    /\ returned = <<>> \/ (HasGateSequence /\ Len(returned) = Len(SourceEntries))
    /\ IsPrefix(stdout, returned)
    /\ (HasGateSequence /\ ~ValidGatesDocument) => returned = <<>> /\ stdout = <<>>

C8_Witness ==
    /\ pc = "done"
    /\ HasGateSequence
    /\ Len(SourceEntries) = 2
    /\ SourceEntries[1].tag = "map"
    /\ SourceEntries[2].tag = "null"
    /\ Len(results) = 1
    /\ e = "AttributeError"
    /\ returned = <<>>
    /\ stdout = <<>>

\* C9: in a run with an argument the file is opened at most once, the file
\* object is closed before any line is written to standard output or to the
\* diagnostic stream, and it is not open when the process ends.
C9_ClosedBeforeOutput ==
    argc >= 1 =>
        /\ opens <= 1
        /\ (stdout # <<>> \/ stderr # <<>>) => handle # "open"
        /\ pc = "done" => handle # "open"
        /\ (pc = "done" /\ fs = "present") => handle = "closed"

C9_Witness ==
    /\ pc = "done"
    /\ content = "invalid"
    /\ opens = 1
    /\ handle = "closed"
    /\ Len(stderr) = 1

----------------------------------------------------------------------------
(* Properties of the formatting, over SpecFormat.                          *)

\* The field tuple of a gate record: the stored values, the defaults for
\* the absent keys.
FieldValue(g, key, default) == IF g[key] = Absent THEN default ELSE g[key]

FieldTuple(g) ==
    <<FieldValue(g, "name", PyStr(Unknown)), FieldValue(g, "type", PyStr(Command)),
      FieldValue(g, "command", PyStr(<<>>)), FieldValue(g, "expected_exit", PyInt(0))>>

\* The string representations of the fields.
TextTuple(g) == [k \in 1..4 |-> Str(FieldTuple(g)[k])]

HasBar(s) == \E p \in 1..Len(s) : s[p] = "|"
NoBar(g) == \A k \in 1..4 : ~HasBar(TextTuple(g)[k])

\* C6 as stated: two gate records with distinct field tuples, no value of
\* which contains '|', give distinct lines.
C6_InjectiveOnValues ==
    \A a, b \in 1..Len(stdout) :
        (FieldTuple(SourceEntries[a]) # FieldTuple(SourceEntries[b])
            /\ NoBar(SourceEntries[a]) /\ NoBar(SourceEntries[b]))
        => stdout[a] # stdout[b]

\* C6 as amended: two gate records whose fields have distinct string
\* representations, none of which contains '|', give distinct lines.
C6_InjectiveOnTexts ==
    \A a, b \in 1..Len(stdout) :
        (TextTuple(SourceEntries[a]) # TextTuple(SourceEntries[b])
            /\ NoBar(SourceEntries[a]) /\ NoBar(SourceEntries[b]))
        => stdout[a] # stdout[b]

C6_Witness ==
    /\ pc = "done"
    /\ Len(stdout) = 2
    /\ SourceEntries[1] = MapEntry(PyStr(<<>>), PyStr(<<"a">>), PyStr(<<>>), PyInt(1))
    /\ SourceEntries[2] = MapEntry(PyStr(<<"a">>), PyStr(<<>>), PyStr(<<>>), PyStr(<<"1">>))
    /\ stdout[1] = <<"|", "a", "|", "|", "1">>
    /\ stdout[2] = <<"a", "|", "|", "|", "1">>

\* The text of a stored value, spelled out for the values a default could
\* be mistaken for.
Shown(v) ==
    CASE v = None -> <<"N", "o", "n", "e">>
      [] v = PyStr(<<>>) -> <<>>
      [] v = PyBool(FALSE) -> <<"F", "a", "l", "s", "e">>
      [] v = PyInt(0) -> <<"0">>
      [] OTHER -> Str(v)

ShownField(g, key, default) == IF g[key] = Absent THEN default ELSE Shown(g[key])

ShownLine(g) ==
    ShownField(g, "name", Unknown) \o Bar \o ShownField(g, "type", Command) \o Bar
        \o ShownField(g, "command", <<>>) \o Bar \o ShownField(g, "expected_exit", Zero)

\* C10: a default is applied only when the key is absent: a field whose key
\* is present is emitted as the string representation of the stored value,
\* also when that value is null, an empty string, false or 0.
C10_DefaultOnlyWhenAbsent ==
    /\ \A k \in 1..Len(results) : results[k] = ShownLine(SourceEntries[k])
    /\ \A k \in 1..Len(stdout) : stdout[k] = ShownLine(SourceEntries[k])

C10_Witness ==
    /\ pc = "done"
    /\ SourceEntries = <<MapEntry(None, PyStr(<<>>), PyBool(FALSE), PyInt(0))>>
    /\ stdout = << <<"N", "o", "n", "e", "|", "|", "F", "a", "l", "s", "e", "|", "0">> >>

====
